---- MODULE Spec2Model ----
(***************************************************************************)
(* Model of resize_and_merge.py.                                           *)
(*                                                                         *)
(* Spec        one run of merge_images_in_folder (the batcher): listing,   *)
(*             makedirs, grouping by four, fillers, the calls of           *)
(*             resize_and_merge with its opens, the saves, the cleanup.    *)
(* SpecLayout  one call of resize_and_merge (the compositor) with the      *)
(*             sizes of the page, the border and the four images drawn     *)
(*             from bounded sets: rotation, cell choice, resize target,    *)
(*             border padding and the four pastes.                         *)
(*                                                                         *)
(* Python's 0-based lists are 1-based sequences here: images[j] of the     *)
(* source is images[j + 1] below.  Sizes are pairs <<width, height>>.      *)
(***************************************************************************)
EXTENDS Integers, Sequences, FiniteSets

VARIABLES
    pc,           \* position of the run / of the call
    image_paths,  \* glob result: the listing, in listing order
    out_exists,   \* the output folder exists
    out_files,    \* names of the files in the output folder
    i,            \* loop variable of range(0, len(image_paths), 4)
    paths_slice,  \* the group handed to resize_and_merge
    idx,          \* enumerate index inside resize_and_merge
    images,       \* resize_and_merge's list of processed images
    opened,       \* log: every path given to Image.open, in order
    saved,        \* log: group index of every merged_<k>.jpg save, in order
    pages,        \* log: what was pasted where, one entry per page saved
    white_saves,  \* log: number of white_temp.jpg saves
    white_removes,\* log: number of os.remove(white_image_path) calls
    final_size,   \* parameter (width, height) of the page
    border_size,  \* parameter
    src_size,     \* size of the image as opened (current iteration)
    img,          \* size of img after the optional rotation
    quarter_size, \* cell chosen for the current image
    new_size,     \* resize target of the current image
    pasted        \* rectangles pasted into final_image, by index 0..3

vars == <<pc, image_paths, out_exists, out_files, i, paths_slice, idx, images,
          opened, saved, pages, white_saves, white_removes, final_size,
          border_size, src_size, img, quarter_size, new_size, pasted>>

batch_vars == <<image_paths, out_exists, out_files, i, paths_slice, opened,
                saved, pages, white_saves, white_removes>>

layout_vars == <<final_size, border_size, src_size, img, quarter_size,
                 new_size, pasted>>

\* ---- bounds ----
MaxN == 9        \* longest listing
MaxW == 9        \* widest page
MaxH == 9        \* tallest page
MaxBorder == 3   \* thickest border
MaxDim == 4      \* largest source width or height

Min(a, b) == IF a <= b THEN a ELSE b

\* ======================= merge_images_in_folder ==========================

\* A path of the listing: its listing position and whether the file can be
\* processed (ok) or makes resize_and_merge raise (open, decode or resize).
InputPath(p, ok) == [kind |-> "input", pos |-> p, ok |-> ok]

\* os.path.join(output_folder, 'white_temp.jpg'); the saved blank decodes.
white_image_path == [kind |-> "filler", pos |-> 0, ok |-> TRUE]

WhiteTempName == [kind |-> "white_temp", n |-> 0]

MergedIndex_off(j) == j
\* i // 4 in f'merged_{i//4}.jpg'
MergedIndex(j) == j \div 4

MergedName(k) == [kind |-> "merged", n |-> k]

\* image_paths[i:i+4]
Slice(paths, j) == SubSeq(paths, j + 1, Min(j + 4, Len(paths)))

Raises_never(path) == FALSE
\* processing the path inside the with Image.open(...) block raises
Raises(path) == ~path.ok

PastePlan_swapped(ims) ==
    [top_left |-> ims[2], top_right |-> ims[1],
     bottom_left |-> ims[3], bottom_right |-> ims[4]]
\* the four final_image.paste calls: which list element goes to which anchor
PastePlan(ims) ==
    [top_left |-> ims[1], top_right |-> ims[2],
     bottom_left |-> ims[3], bottom_right |-> ims[4]]

Listings ==
    UNION {{[p \in 1..n |-> InputPath(p - 1, f[p])] : f \in [1..n -> BOOLEAN]}
           : n \in 0..MaxN}

LayoutIdle ==
    /\ final_size = <<0, 0>>
    /\ border_size = 0
    /\ src_size = <<0, 0>>
    /\ img = <<0, 0>>
    /\ quarter_size = <<0, 0>>
    /\ new_size = <<0, 0>>
    /\ pasted = <<>>

Init ==
    /\ pc = "glob"
    /\ image_paths = <<>>
    /\ out_exists \in BOOLEAN
    /\ out_files = {}
    /\ i = 0
    /\ paths_slice = <<>>
    /\ idx = 0
    /\ images = <<>>
    /\ opened = <<>>
    /\ saved = <<>>
    /\ pages = <<>>
    /\ white_saves = 0
    /\ white_removes = 0
    /\ LayoutIdle

\* image_paths = glob.glob(os.path.join(input_folder, '*'))
Glob ==
    /\ pc = "glob"
    /\ \E l \in Listings : image_paths' = l
    /\ pc' = "makedirs"
    /\ UNCHANGED <<out_exists, out_files, i, paths_slice, idx, images, opened,
                   saved, pages, white_saves, white_removes>>
    /\ UNCHANGED layout_vars

\* os.makedirs(output_folder, exist_ok=True)
MakeDirs ==
    /\ pc = "makedirs"
    /\ out_exists' = TRUE
    /\ i' = 0
    /\ pc' = "loop"
    /\ UNCHANGED <<image_paths, out_files, paths_slice, idx, images, opened,
                   saved, pages, white_saves, white_removes>>
    /\ UNCHANGED layout_vars

\* for i in range(0, len(image_paths), 4): paths_slice = image_paths[i:i+4]
LoopNext ==
    /\ pc = "loop"
    /\ IF i < Len(image_paths)
         THEN /\ paths_slice' = Slice(image_paths, i)
              /\ pc' = "fill"
         ELSE /\ pc' = "done"
              /\ UNCHANGED paths_slice
    /\ UNCHANGED <<image_paths, out_exists, out_files, i, idx, images, opened,
                   saved, pages, white_saves, white_removes>>
    /\ UNCHANGED layout_vars

\* one iteration of: while len(paths_slice) < 4
AddFiller ==
    /\ pc = "fill"
    /\ Len(paths_slice) < 4
    /\ out_files' = out_files \cup {WhiteTempName}
    /\ white_saves' = white_saves + 1
    /\ paths_slice' = Append(paths_slice, white_image_path)
    /\ UNCHANGED <<pc, image_paths, out_exists, i, idx, images, opened, saved,
                   pages, white_removes>>
    /\ UNCHANGED layout_vars

\* the while loop ends; resize_and_merge(paths_slice, ...) is entered
CallMerge ==
    /\ pc = "fill"
    /\ ~(Len(paths_slice) < 4)
    /\ idx' = 0
    /\ images' = <<>>
    /\ pc' = "open"
    /\ UNCHANGED <<image_paths, out_exists, out_files, i, paths_slice, opened,
                   saved, pages, white_saves, white_removes>>
    /\ UNCHANGED layout_vars

\* one iteration of: for idx, image_path in enumerate(image_paths): with Image.open
OpenImage ==
    /\ pc = "open"
    /\ idx < Len(paths_slice)
    /\ LET image_path == paths_slice[idx + 1] IN
         /\ opened' = Append(opened, image_path)
         /\ IF Raises(image_path)
              THEN /\ pc' = "aborted"
                   /\ UNCHANGED <<idx, images>>
              ELSE /\ images' = Append(images, image_path)
                   /\ idx' = idx + 1
                   /\ UNCHANGED pc
    /\ UNCHANGED <<image_paths, out_exists, out_files, i, paths_slice, saved,
                   pages, white_saves, white_removes>>
    /\ UNCHANGED layout_vars

\* the four pastes, return, and merged_image.save(merged_image_path)
SaveMerged ==
    /\ pc = "open"
    /\ idx = Len(paths_slice)
    /\ pages' = Append(pages, PastePlan(images))
    /\ saved' = Append(saved, MergedIndex(i))
    /\ out_files' = out_files \cup {MergedName(MergedIndex(i))}
    /\ pc' = "cleanup"
    /\ UNCHANGED <<image_paths, out_exists, i, paths_slice, idx, images,
                   opened, white_saves, white_removes>>
    /\ UNCHANGED layout_vars

\* if len(paths_slice) < 4: os.remove(white_image_path); then the next i
Cleanup ==
    /\ pc = "cleanup"
    /\ IF Len(paths_slice) < 4
         THEN /\ out_files' = out_files \ {WhiteTempName}
              /\ white_removes' = white_removes + 1
         ELSE UNCHANGED <<out_files, white_removes>>
    /\ i' = i + 4
    /\ pc' = "loop"
    /\ UNCHANGED <<image_paths, out_exists, paths_slice, idx, images, opened,
                   saved, pages, white_saves>>
    /\ UNCHANGED layout_vars

Next ==
    \/ Glob
    \/ MakeDirs
    \/ LoopNext
    \/ AddFiller
    \/ CallMerge
    \/ OpenImage
    \/ SaveMerged
    \/ Cleanup

Spec == Init /\ [][Next]_vars

\* ========================== resize_and_merge =============================

\* int(x) of a quotient num/den with den > 0: truncation toward zero
Trunc(num, den) == IF num >= 0 THEN num \div den ELSE -((-num) \div den)

\* ((final_size[0] - border_size) // 2, final_size[1] // 2)
quarter_size_single_border(fs, b) == <<(fs[1] - b) \div 2, fs[2] \div 2>>

\* ((final_size[0] - 2 * border_size) // 2, (final_size[1] - border_size) // 2)
quarter_size_double_border(fs, b) ==
    <<(fs[1] - 2 * b) \div 2, (fs[2] - b) \div 2>>

Rotate_none(s) == s
\* if img.width > img.height: img = img.rotate(90, expand=True)
Rotate(s) == IF s[1] > s[2] THEN <<s[2], s[1]>> ELSE s

\* quarter_size_double_border if idx % 2 else quarter_size_single_border
QuarterSize(j, fs, b) ==
    IF j % 2 # 0 THEN quarter_size_double_border(fs, b)
                 ELSE quarter_size_single_border(fs, b)

\* resize_ratio = min(q[0] / w, q[1] / h); new_size = (int(w * r), int(h * r)).
\* q[0]/w <= q[1]/h iff q[0]*h <= q[1]*w, since w, h > 0.  The quotients are
\* taken exactly; on the sizes drawn here the double-precision evaluation of
\* the source gives the same integers.
NewSize(im, q) ==
    IF q[1] * im[2] <= q[2] * im[1]
      THEN <<Trunc(im[1] * q[1], im[1]), Trunc(im[2] * q[1], im[1])>>
      ELSE <<Trunc(im[1] * q[2], im[2]), Trunc(im[2] * q[2], im[2])>>

\* img.resize(new_size, ...) raises ValueError unless both dimensions are > 0
ResizeRaises(ns) == ns[1] < 1 \/ ns[2] < 1

Border_same(j, b) == <<0, 0, b, b>>
\* the border tuple (left, top, right, bottom) given to ImageOps.expand
Border(j, b) == IF j % 2 # 0 THEN <<0, 0, b, b>> ELSE <<0, 0, b, 0>>

\* ImageOps.expand(img_resized, border=(l, t, r, b)): the padded image, and
\* where the picture sits inside it
Expand(size, bd) ==
    [size |-> <<bd[1] + size[1] + bd[3], bd[2] + size[2] + bd[4]>>,
     off |-> <<bd[1], bd[2]>>,
     content |-> size]

Anchor_noborder(j, fs, b) ==
    LET qs == quarter_size_single_border(fs, b)
        qd == quarter_size_double_border(fs, b)
    IN CASE j = 0 -> <<0, 0>>
         [] j = 1 -> <<qs[1], 0>>
         [] j = 2 -> <<0, qs[2]>>
         [] j = 3 -> <<qs[1], qd[2] + b>>
\* the positions of the four final_image.paste calls
Anchor(j, fs, b) ==
    LET qs == quarter_size_single_border(fs, b)
        qd == quarter_size_double_border(fs, b)
    IN CASE j = 0 -> <<0, 0>>
         [] j = 1 -> <<qs[1] + b, 0>>
         [] j = 2 -> <<0, qs[2]>>
         [] j = 3 -> <<qs[1] + b, qd[2] + b>>

\* final_image.paste(images[j], Anchor(j)): the box of the sub-image and of
\* the picture inside it, in page coordinates (x, y, w, h)
PasteBox(im, a) ==
    [x |-> a[1], y |-> a[2], w |-> im.size[1], h |-> im.size[2],
     cx |-> a[1] + im.off[1], cy |-> a[2] + im.off[2],
     cw |-> im.content[1], ch |-> im.content[2]]

Sizes == (1..MaxDim) \X (1..MaxDim)

InitLayout ==
    /\ pc = "process"
    /\ final_size \in (1..MaxW) \X (1..MaxH)
    /\ border_size \in 0..MaxBorder
    /\ paths_slice = [p \in 1..4 |-> InputPath(p - 1, TRUE)]
    /\ idx = 0
    /\ images = <<>>
    /\ src_size = <<0, 0>>
    /\ img = <<0, 0>>
    /\ quarter_size = <<0, 0>>
    /\ new_size = <<0, 0>>
    /\ pasted = <<>>
    /\ image_paths = <<>>
    /\ out_exists = FALSE
    /\ out_files = {}
    /\ i = 0
    /\ opened = <<>>
    /\ saved = <<>>
    /\ pages = <<>>
    /\ white_saves = 0
    /\ white_removes = 0

\* one iteration of the for loop that ends with images.append(img_with_border)
ProcessImage ==
    /\ pc = "process"
    /\ idx < Len(paths_slice)
    /\ \E s \in Sizes :
         LET rotated == Rotate(s)
             q == QuarterSize(idx, final_size, border_size)
             ns == NewSize(rotated, q)
         IN /\ ~ResizeRaises(ns)
            /\ src_size' = s
            /\ img' = rotated
            /\ quarter_size' = q
            /\ new_size' = ns
            /\ images' = Append(images, Expand(ns, Border(idx, border_size)))
            /\ idx' = idx + 1
    /\ UNCHANGED <<pc, final_size, border_size, pasted>>
    /\ UNCHANGED batch_vars

\* one iteration of the for loop in which img.resize raises
ProcessImageRaises ==
    /\ pc = "process"
    /\ idx < Len(paths_slice)
    /\ \E s \in Sizes :
         LET rotated == Rotate(s)
             q == QuarterSize(idx, final_size, border_size)
             ns == NewSize(rotated, q)
         IN /\ ResizeRaises(ns)
            /\ src_size' = s
            /\ img' = rotated
            /\ quarter_size' = q
            /\ new_size' = ns
    /\ pc' = "raised"
    /\ UNCHANGED <<idx, images, final_size, border_size, pasted>>
    /\ UNCHANGED batch_vars

\* Image.new(final_size), the four pastes, return final_image
Paste ==
    /\ pc = "process"
    /\ idx = Len(paths_slice)
    /\ pasted' = [j \in 1..4 |->
                    PasteBox(images[j], Anchor(j - 1, final_size, border_size))]
    /\ pc' = "returned"
    /\ UNCHANGED <<idx, images, final_size, border_size, src_size, img,
                   quarter_size, new_size>>
    /\ UNCHANGED batch_vars

NextLayout ==
    \/ ProcessImage
    \/ ProcessImageRaises
    \/ Paste

SpecLayout == InitLayout /\ [][NextLayout]_vars

\* ============================== properties ===============================

N == Len(image_paths)

Ceil4(n) == (n + 3) \div 4

MergedFiles == {f \in out_files : f.kind = "merged"}

\* C1: a completed run over a listing of N entries has created the output
\* folder and written exactly ceil(N/4) pages, merged_0 .. merged_(ceil(N/4)-1),
\* each written once and in order; for N = 0 none is written.
C1_PageCount ==
    pc = "done" =>
        /\ out_exists
        /\ saved = [k \in 1..Ceil4(N) |-> k - 1]
        /\ MergedFiles = {MergedName(k) : k \in 0..(Ceil4(N) - 1)}

C1_Witness == pc = "done" /\ N = 5 /\ Len(saved) = 2

\* C2: after a completed run no white_temp.jpg remains in the output folder.
C2_NoFillerLeft == pc = "done" => WhiteTempName \notin out_files

\* the input expected in slot j of page k
ExpectedSlot(k, j) ==
    IF 4 * k + j < N THEN image_paths[4 * k + j + 1] ELSE white_image_path

PageSlots(page) ==
    <<page.top_left, page.top_right, page.bottom_left, page.bottom_right>>

FillersOf(page) ==
    Cardinality({j \in 1..4 : PageSlots(page)[j] = white_image_path})

\* C3: page k holds in slot j (0 top-left, 1 top-right, 2 bottom-left,
\* 3 bottom-right) the input at listing position 4k+j when 4k+j < N and a
\* filler otherwise; so fillers occur only in the last page, after its real
\* images, and a completed run has used (4 - N mod 4) mod 4 of them.
C3_Slots ==
    /\ \A k \in 1..Len(pages) :
         /\ PageSlots(pages[k]) = [j \in 1..4 |-> ExpectedSlot(k - 1, j - 1)]
         /\ k < Ceil4(N) => FillersOf(pages[k]) = 0
    /\ pc = "done" =>
         /\ Len(pages) = Ceil4(N)
         /\ N > 0 => FillersOf(pages[Len(pages)]) = (4 - (N % 4)) % 4

C3_Witness ==
    /\ pc = "done"
    /\ N = 5
    /\ FillersOf(pages[1]) = 0
    /\ FillersOf(pages[2]) = 3

BadOpened == {n \in 1..Len(opened) : ~opened[n].ok}

FirstBad == CHOOSE p \in 1..N : ~image_paths[p].ok /\
                                \A r \in 1..(p - 1) : image_paths[r].ok

\* C9: once an input that does not decode has been opened the run has ended
\* there: it was the first such input of the listing, every page of an
\* earlier group has been written, no page of its group or of a later one
\* has, and no input after it has been opened.
C9_AbortOnFirstError ==
    BadOpened # {} =>
        /\ pc = "aborted"
        /\ opened = SubSeq(image_paths, 1, FirstBad)
        /\ saved = [k \in 1..((FirstBad - 1) \div 4) |-> k - 1]
        /\ MergedFiles = {MergedName(k) : k \in 0..(((FirstBad - 1) \div 4) - 1)}

C9_Witness ==
    /\ pc = "aborted"
    /\ Len(saved) = 1
    /\ N > 8

LayoutPre ==
    /\ 0 <= 2 * border_size
    /\ 2 * border_size < final_size[1]
    /\ border_size < final_size[2]

\* two boxes (x, y, w, h) share no pixel
Disjoint(r1, r2) ==
    \/ r1.x + r1.w <= r2.x
    \/ r2.x + r2.w <= r1.x
    \/ r1.y + r1.h <= r2.y
    \/ r2.y + r2.h <= r1.y

\* C4: with 0 <= 2b < W and b < H the four pasted sub-images (resized image
\* plus border padding, at its anchor) are pairwise disjoint.
C4_NoOverlap ==
    (pc = "returned" /\ LayoutPre) =>
        \A j, k \in 1..4 : j < k => Disjoint(pasted[j], pasted[k])

C4_Witness ==
    /\ pc = "returned"
    /\ LayoutPre
    /\ border_size > 0
    /\ pasted[1].x + pasted[1].w = pasted[2].x
    /\ pasted[2].y + pasted[2].h = pasted[4].y

\* the quadrant of index j: from its own anchor to the neighbouring anchor's
\* coordinate, or to the page edge
QuadrantRight(j) ==
    IF j \in {0, 2} THEN Anchor(j + 1, final_size, border_size)[1]
                    ELSE final_size[1]

QuadrantBottom(j) ==
    IF j \in {0, 1} THEN Anchor(j + 2, final_size, border_size)[2]
                    ELSE final_size[2]

\* C5: with 0 <= 2b < W and b < H every pasted sub-image (padding included)
\* lies within its quadrant, and so within the page.
C5_WithinQuadrant ==
    (pc = "returned" /\ LayoutPre) =>
        \A j \in 0..3 :
            /\ pasted[j + 1].x + pasted[j + 1].w <= QuadrantRight(j)
            /\ pasted[j + 1].y + pasted[j + 1].h <= QuadrantBottom(j)

\* C6: with b > 0 the pictures (padding excluded) of adjacent cells are at
\* least b apart: horizontally for (0,1) and (2,3), vertically for (0,2) and
\* (1,3).
C6_BorderBetween ==
    (pc = "returned" /\ border_size > 0) =>
        /\ pasted[2].cx - (pasted[1].cx + pasted[1].cw) >= border_size
        /\ pasted[4].cx - (pasted[3].cx + pasted[3].cw) >= border_size
        /\ pasted[3].cy - (pasted[1].cy + pasted[1].ch) >= border_size
        /\ pasted[4].cy - (pasted[2].cy + pasted[2].ch) >= border_size

\* an image has just been appended to images: it is the last element, built
\* from src_size, and its index is Len(images) - 1
Processed == pc \in {"process", "returned"} /\ Len(images) >= 1

Last(seq) == seq[Len(seq)]

\* C7 as stated: for a source wider than tall the element appended to images
\* (rotated, resized, padded) is at least as tall as wide, at every index.
C7_PaddedPortrait ==
    (Processed /\ src_size[1] > src_size[2]) =>
        Last(images).size[2] >= Last(images).size[1]

\* C7 amended: for a source wider than tall the rotated and resized image is
\* at least as tall as wide at every index, and so is the padded element at
\* the odd indices.
C7_ResizedPortrait ==
    (Processed /\ src_size[1] > src_size[2]) =>
        /\ img = <<src_size[2], src_size[1]>>
        /\ new_size[2] >= new_size[1]
        /\ Last(images).content[2] >= Last(images).content[1]
        /\ (Len(images) - 1) % 2 = 1 =>
               Last(images).size[2] >= Last(images).size[1]

C7_Witness ==
    /\ Processed
    /\ src_size[1] > src_size[2]
    /\ Len(images) = 1
    /\ Last(images).size[1] > Last(images).size[2]

\* C8 as stated: every image, whatever its index, is padded by border_size on
\* the right and on the bottom and by nothing on the left and the top.
C8_SamePadding ==
    Processed =>
        /\ Last(images).off = <<0, 0>>
        /\ Last(images).size =
               <<new_size[1] + border_size, new_size[2] + border_size>>

\* C8 amended: no image is padded on the left or the top; an odd-index image
\* is padded by border_size on the right and on the bottom, an even-index
\* image on the right only.
C8_PaddingByParity ==
    Processed =>
        /\ Last(images).off = <<0, 0>>
        /\ Last(images).content = new_size
        /\ Last(images).size =
               IF (Len(images) - 1) % 2 = 1
                 THEN <<new_size[1] + border_size, new_size[2] + border_size>>
                 ELSE <<new_size[1] + border_size, new_size[2]>>

C8_Witness ==
    /\ Processed
    /\ border_size > 0
    /\ Len(images) = 3
    /\ Last(images).size = <<new_size[1] + border_size, new_size[2]>>

\* C10: for a source of at least 1x1 and a cell of at least 1x1 both
\* dimensions of the resize target are at least 1.
C10_TargetPositive ==
    (/\ src_size[1] >= 1
     /\ src_size[2] >= 1
     /\ quarter_size[1] >= 1
     /\ quarter_size[2] >= 1) =>
        (new_size[1] >= 1 /\ new_size[2] >= 1)

====
